---- MODULE Spec2Model ----
(***************************************************************************)
(* vol_wrapper.go: a bounded dispatcher that runs one external process per *)
(* module of a job list, at most numGoroutines at a time (a buffered       *)
(* channel used as a counting semaphore), a sync.Map of the modules that   *)
(* are running (runningModules) and a monitor goroutine that prints that   *)
(* map when a byte arrives on stdin.                                       *)
(*                                                                         *)
(* Spec starts where main has read its inputs and started the monitor      *)
(* (vol_wrapper.go:141-145); FullSpec starts with the process and goes      *)
(* through main's checks of its inputs first (vol_wrapper.go:96-135).  Both *)
(* follow every goroutine from one access of the shared state (sem, wg,     *)
(* runningModules) to the next.  A job is identified by its position in the *)
(* job list.                                                                *)
(***************************************************************************)
EXTENDS Integers, Sequences, FiniteSets, TLC

\* ------------------------------------------------------------------ bounds
MaxJobs == 2    \* longest job list explored
MaxCPU  == 3    \* largest runtime.NumCPU() explored
MaxBlank == 1   \* most empty lines in a modules file

\* ------------------------------------------------------------------ inputs
NameSeq == <<"pslist", "pstree", "netscan">>
Names   == {NameSeq[k] : k \in 1..Len(NameSeq)}

\* registry value meaning "no entry under this key"
NoEntry == 0

Max(S) == CHOOSE x \in S : \A y \in S : y <= x
Min2(a, b) == IF a <= b THEN a ELSE b

\* Job lists up to renaming of the modules: the first line is NameSeq[1] and a
\* line uses either a name already used or the next unused one.  Repeated
\* names are included.
IndexLists(m) ==
    {s \in [1..m -> 1..Len(NameSeq)] :
        \A k \in 1..m : s[k] <= (IF k = 1 THEN 0 ELSE Max({s[h] : h \in 1..(k-1)})) + 1}
JobLists == UNION {{[k \in 1..m |-> NameSeq[s[k]]] : s \in IndexLists(m)} : m \in 0..MaxJobs}

\* The modules files: the lines of a job list with up to MaxBlank empty lines
\* anywhere among them.  Line 0 of an index file is the empty line.
LineOf(x) == IF x = 0 THEN "" ELSE NameSeq[x]
NamedBefore(s, k) == {s[h] : h \in {h \in 1..(k-1) : s[h] # 0}}
IndexFiles(n) ==
    {s \in [1..n -> 0..Len(NameSeq)] :
        /\ Cardinality({k \in 1..n : s[k] = 0}) <= MaxBlank
        /\ Cardinality({k \in 1..n : s[k] # 0}) <= MaxJobs
        /\ \A k \in 1..n : s[k] <= Max(NamedBefore(s, k) \cup {0}) + 1}
Files == UNION {{[k \in 1..n |-> LineOf(s[k])] : s \in IndexFiles(n)} : n \in 0..(MaxJobs + MaxBlank)}

\* numGoroutines without the floor of 1
numGoroutinesFor_NoFloor(c) == c - 1

\* numGoroutines := runtime.NumCPU() - 1; if numGoroutines < 1 { numGoroutines = 1 }
numGoroutinesFor(c) == IF c - 1 < 1 THEN 1 ELSE c - 1

\* every input is there and readable
EnvOK == [flags |-> TRUE, mkdir |-> TRUE, open |-> TRUE, scan |-> TRUE]

VARIABLES
    env,            \* what the process finds: whether the four flags are
                    \* given, os.MkdirAll and os.Open succeed, the scanner
                    \* reads the file without error
    cpus,           \* runtime.NumCPU()
    file,           \* the lines of the modules file, while main reads it
    pos,            \* the line of file the scanner returns next
    modules,        \* the job list (vol_wrapper.go:115-122)
    numGoroutines,  \* capacity of sem (vol_wrapper.go:130-133)
    mainpc,         \* position of main
    i,              \* index of main's range loop over modules
    sem,            \* number of tokens in the channel sem
    wg,             \* counter of the WaitGroup
    pc,             \* position of each job's goroutine
    runningModules, \* the sync.Map: name -> start time or NoEntry; the start
                    \* time of job j is written j
    outcome,        \* terminal report of each job
    monpc,          \* position of monitorKeyPress
    visited,        \* keys the running Range call has passed
    printed,        \* names printed since the header
    snaps           \* key sets the registry has had since the header that
                    \* agree with what has been printed since

vars == <<env, cpus, file, pos, modules, numGoroutines, mainpc, i, sem, wg, pc,
          runningModules, outcome, monpc, visited, printed, snaps>>

Jobs == 1..Len(modules)

Keys(reg) == {n \in Names : reg[n] # NoEntry}

\* the process is alive until main returns (vol_wrapper.go:160)
Alive == mainpc # "exited"

\* after the last iteration the range loop falls through to wg.Wait
AfterLoop(k) == IF k > Len(modules) THEN "wait" ELSE "acquire"

\* os.Exit(1) has ended the process
Fatal == mainpc = "fatal"

\* a status print is under way: between the header and the footer
Printing == monpc = "range"

\* the keys the registry can ever hold: the names of the job list
KeySpace == {modules[j] : j \in Jobs}

\* The instants of the print under way are remembered by the registry's key set
\* at each of them; an instant whose key set differs from the names printed on
\* a key Range has passed can no longer be the instant the print shows, and is
\* dropped.
Agreeing(S, vis, prn) == {K \in S : K \cap vis = prn}

\* the instants remembered after the registry became reg
Observe(reg) == IF Printing THEN Agreeing(snaps \cup {Keys(reg)}, visited, printed) ELSE snaps

Init ==
    /\ env = EnvOK
    /\ cpus \in 1..MaxCPU
    /\ file = <<>>
    /\ pos = 0
    /\ modules \in JobLists
    /\ numGoroutines = numGoroutinesFor(cpus)
    /\ mainpc = AfterLoop(1)
    /\ i = 1
    /\ sem = 0
    /\ wg = 0
    /\ pc = [j \in 1..Len(modules) |-> "pending"]
    /\ runningModules = [n \in Names |-> NoEntry]
    /\ outcome = [j \in 1..Len(modules) |-> "none"]
    /\ monpc = "read"
    /\ visited = {}
    /\ printed = {}
    /\ snaps = {}

\* ------------------------------------------------------------------ main, its inputs
\* the process starts: nothing is read, the monitor is not started
Boot ==
    /\ env \in [flags : BOOLEAN, mkdir : BOOLEAN, open : BOOLEAN, scan : BOOLEAN]
    /\ cpus \in 1..MaxCPU
    /\ file \in Files
    /\ pos = 1
    /\ modules = <<>>
    /\ numGoroutines = 0
    /\ mainpc = "flags"
    /\ i = 1
    /\ sem = 0
    /\ wg = 0
    /\ pc = <<>>
    /\ runningModules = [n \in Names |-> NoEntry]
    /\ outcome = <<>>
    /\ monpc = "off"
    /\ visited = {}
    /\ printed = {}
    /\ snaps = {}

\* if *volatilityPath == "" || ... { os.Exit(1) }
SetupFlags ==
    /\ mainpc = "flags"
    /\ mainpc' = IF env.flags THEN "mkdir" ELSE "fatal"
    /\ UNCHANGED <<env, cpus, file, pos, modules, numGoroutines, i, sem, wg, pc,
                   runningModules, outcome, monpc, visited, printed, snaps>>

\* SetupMkdir that goes on when os.MkdirAll fails
SetupMkdir_IgnoreErr ==
    /\ mainpc = "mkdir"
    /\ mainpc' = "open"
    /\ UNCHANGED <<env, cpus, file, pos, modules, numGoroutines, i, sem, wg, pc,
                   runningModules, outcome, monpc, visited, printed, snaps>>

\* if err := os.MkdirAll(*outputDir, 0755); err != nil { os.Exit(1) }
SetupMkdir ==
    /\ mainpc = "mkdir"
    /\ mainpc' = IF env.mkdir THEN "open" ELSE "fatal"
    /\ UNCHANGED <<env, cpus, file, pos, modules, numGoroutines, i, sem, wg, pc,
                   runningModules, outcome, monpc, visited, printed, snaps>>

\* file, err := os.Open(*modulesFile); if err != nil { os.Exit(1) }
SetupOpen ==
    /\ mainpc = "open"
    /\ mainpc' = IF env.open THEN "scan" ELSE "fatal"
    /\ UNCHANGED <<env, cpus, file, pos, modules, numGoroutines, i, sem, wg, pc,
                   runningModules, outcome, monpc, visited, printed, snaps>>

\* ScanLine that appends every line
ScanLine_KeepBlank ==
    /\ mainpc = "scan"
    /\ pos <= Len(file)
    /\ pos' = pos + 1
    /\ modules' = Append(modules, file[pos])
    /\ pc' = Append(pc, "pending")
    /\ outcome' = Append(outcome, "none")
    /\ UNCHANGED <<env, cpus, file, numGoroutines, mainpc, i, sem, wg,
                   runningModules, monpc, visited, printed, snaps>>

\* scanner.Scan() returns true: module := scanner.Text();
\* if module != "" { modules = append(modules, module) }
\* A job that is appended has no goroutine yet.
ScanLine ==
    /\ mainpc = "scan"
    /\ pos <= Len(file)
    /\ pos' = pos + 1
    /\ IF file[pos] # ""
       THEN /\ modules' = Append(modules, file[pos])
            /\ pc' = Append(pc, "pending")
            /\ outcome' = Append(outcome, "none")
       ELSE UNCHANGED <<modules, pc, outcome>>
    /\ UNCHANGED <<env, cpus, file, numGoroutines, mainpc, i, sem, wg,
                   runningModules, monpc, visited, printed, snaps>>

\* scanner.Scan() returns false: at the end of the file, or at any line when the
\* file cannot be read
ScanStop ==
    /\ mainpc = "scan"
    /\ pos > Len(file) \/ ~env.scan
    /\ mainpc' = "scanerr"
    /\ UNCHANGED <<env, cpus, file, pos, modules, numGoroutines, i, sem, wg, pc,
                   runningModules, outcome, monpc, visited, printed, snaps>>

\* if err := scanner.Err(); err != nil { os.Exit(1) }
SetupScanErr ==
    /\ mainpc = "scanerr"
    /\ mainpc' = IF env.scan THEN "limit" ELSE "fatal"
    /\ UNCHANGED <<env, cpus, file, pos, modules, numGoroutines, i, sem, wg, pc,
                   runningModules, outcome, monpc, visited, printed, snaps>>

\* numGoroutines := runtime.NumCPU() - 1, with its floor
SetupLimit ==
    /\ mainpc = "limit"
    /\ numGoroutines' = numGoroutinesFor(cpus)
    /\ mainpc' = "monitor"
    /\ UNCHANGED <<env, cpus, file, pos, modules, i, sem, wg, pc,
                   runningModules, outcome, monpc, visited, printed, snaps>>

\* go monitorKeyPress(); sem := make(chan struct{}, numGoroutines); the range
\* loop begins.  The scanner and the file's lines are not used after this.
SetupStart ==
    /\ mainpc = "monitor"
    /\ monpc' = "read"
    /\ mainpc' = AfterLoop(1)
    /\ file' = <<>>
    /\ pos' = 0
    /\ UNCHANGED <<env, cpus, modules, numGoroutines, i, sem, wg, pc,
                   runningModules, outcome, visited, printed, snaps>>

SetupStep ==
    \/ SetupFlags \/ SetupMkdir \/ SetupOpen \/ ScanLine \/ ScanStop
    \/ SetupScanErr \/ SetupLimit \/ SetupStart

\* ------------------------------------------------------------------ main, the dispatcher
\* MainAcquire without the channel's capacity: the send never blocks
MainAcquire_NoCap ==
    /\ mainpc = "acquire"
    /\ sem' = sem + 1
    /\ mainpc' = "go"
    /\ UNCHANGED <<env, cpus, file, pos, modules, numGoroutines, i, wg, pc,
                   runningModules, outcome, monpc, visited, printed, snaps>>

\* sem <- struct{}{}: blocks while the channel is full
MainAcquire ==
    /\ mainpc = "acquire"
    /\ sem < numGoroutines
    /\ sem' = sem + 1
    /\ mainpc' = "go"
    /\ UNCHANGED <<env, cpus, file, pos, modules, numGoroutines, i, wg, pc,
                   runningModules, outcome, monpc, visited, printed, snaps>>

\* MainGo that starts the jobs from the end of the list
MainGo_Reversed ==
    /\ mainpc = "go"
    /\ wg' = wg + 1
    /\ pc' = [pc EXCEPT ![Len(modules) + 1 - i] = "store"]
    /\ i' = i + 1
    /\ mainpc' = AfterLoop(i + 1)
    /\ UNCHANGED <<env, cpus, file, pos, modules, numGoroutines, sem,
                   runningModules, outcome, monpc, visited, printed, snaps>>

\* wg.Add(1); go func(module string) {...}(module); then the next iteration
MainGo ==
    /\ mainpc = "go"
    /\ wg' = wg + 1
    /\ pc' = [pc EXCEPT ![i] = "store"]
    /\ i' = i + 1
    /\ mainpc' = AfterLoop(i + 1)
    /\ UNCHANGED <<env, cpus, file, pos, modules, numGoroutines, sem,
                   runningModules, outcome, monpc, visited, printed, snaps>>

\* MainWait that does not block on the counter
MainWait_NoBlock ==
    /\ mainpc = "wait"
    /\ mainpc' = "report"
    /\ UNCHANGED <<env, cpus, file, pos, modules, numGoroutines, i, sem, wg, pc,
                   runningModules, outcome, monpc, visited, printed, snaps>>

\* wg.Wait(): returns when the counter is zero
MainWait ==
    /\ mainpc = "wait"
    /\ wg = 0
    /\ mainpc' = "report"
    /\ UNCHANGED <<env, cpus, file, pos, modules, numGoroutines, i, sem, wg, pc,
                   runningModules, outcome, monpc, visited, printed, snaps>>

\* the total time is printed and main returns: the process ends, and with it
\* every goroutine
MainReport ==
    /\ mainpc = "report"
    /\ mainpc' = "exited"
    /\ UNCHANGED <<env, cpus, file, pos, modules, numGoroutines, i, sem, wg, pc,
                   runningModules, outcome, monpc, visited, printed, snaps>>

MainStep == MainAcquire \/ MainGo \/ MainWait \/ MainReport

\* ------------------------------------------------------------------ runModule
\* The value of time.Now() in job j, the j-th goroutine's start time.  Only the
\* identity of a time stamp is kept: which job's start it is.
StartOf(j) == j

\* JobStore as LoadOrStore: an entry that is there is kept
JobStore_KeepFirst(j) ==
    /\ Alive /\ j \in Jobs /\ pc[j] = "store"
    /\ runningModules' = IF runningModules[modules[j]] = NoEntry
                         THEN [runningModules EXCEPT ![modules[j]] = StartOf(j)]
                         ELSE runningModules
    /\ snaps' = Observe(runningModules')
    /\ pc' = [pc EXCEPT ![j] = "create"]
    /\ UNCHANGED <<env, cpus, file, pos, modules, numGoroutines, mainpc, i, sem, wg,
                   outcome, monpc, visited, printed>>

\* JobStore under a lock that the monitor holds for the whole print
JobStore_WaitsForPrint(j) ==
    /\ Alive /\ j \in Jobs /\ pc[j] = "store"
    /\ monpc # "range"
    /\ runningModules' = [runningModules EXCEPT ![modules[j]] = StartOf(j)]
    /\ snaps' = Observe(runningModules')
    /\ pc' = [pc EXCEPT ![j] = "create"]
    /\ UNCHANGED <<env, cpus, file, pos, modules, numGoroutines, mainpc, i, sem, wg,
                   outcome, monpc, visited, printed>>

\* start := time.Now(); runningModules.Store(module, start);
\* defer runningModules.Delete(module)
JobStore(j) ==
    /\ Alive /\ j \in Jobs /\ pc[j] = "store"
    /\ runningModules' = [runningModules EXCEPT ![modules[j]] = StartOf(j)]
    /\ snaps' = Observe(runningModules')
    /\ pc' = [pc EXCEPT ![j] = "create"]
    /\ UNCHANGED <<env, cpus, file, pos, modules, numGoroutines, mainpc, i, sem, wg,
                   outcome, monpc, visited, printed>>


\* JobCreate whose error return comes before the Delete is deferred
JobCreate_EarlyReturn(j) ==
    /\ Alive /\ j \in Jobs /\ pc[j] = "create"
    /\ \E err \in BOOLEAN :
         IF err
         THEN /\ outcome' = [outcome EXCEPT ![j] = "setup_failure"]
              /\ pc' = [pc EXCEPT ![j] = "done"]
         ELSE /\ outcome' = outcome
              /\ pc' = [pc EXCEPT ![j] = "run"]
    /\ UNCHANGED <<env, cpus, file, pos, modules, numGoroutines, mainpc, i, sem, wg,
                   runningModules, monpc, visited, printed, snaps>>

\* outfile, err := os.Create(outputFile); on an error the job reports it and
\* returns, which runs the deferred Delete and Done
JobCreate(j) ==
    /\ Alive /\ j \in Jobs /\ pc[j] = "create"
    /\ \E err \in BOOLEAN :
         IF err
         THEN /\ outcome' = [outcome EXCEPT ![j] = "setup_failure"]
              /\ pc' = [pc EXCEPT ![j] = "delete"]
         ELSE /\ outcome' = outcome
              /\ pc' = [pc EXCEPT ![j] = "run"]
    /\ UNCHANGED <<env, cpus, file, pos, modules, numGoroutines, mainpc, i, sem, wg,
                   runningModules, monpc, visited, printed, snaps>>


\* JobRun that tries the module again when the external process fails
JobRun_Retry(j) ==
    /\ Alive /\ j \in Jobs /\ pc[j] = "run"
    /\ \E err \in BOOLEAN :
         /\ outcome' = [outcome EXCEPT ![j] = IF err THEN "exec_failure" ELSE "success"]
         /\ pc' = [pc EXCEPT ![j] = IF err /\ outcome[j] = "none" THEN "run" ELSE "delete"]
    /\ UNCHANGED <<env, cpus, file, pos, modules, numGoroutines, mainpc, i, sem, wg,
                   runningModules, monpc, visited, printed, snaps>>

\* cmd.Run() returns: the external process failed to launch, exited non-zero
\* (err) or exited with status 0.  The job reports it and returns, which runs
\* the deferred outfile.Close(): the output file is open while pc[j] = "run".
JobRun(j) ==
    /\ Alive /\ j \in Jobs /\ pc[j] = "run"
    /\ \E err \in BOOLEAN :
         outcome' = [outcome EXCEPT ![j] = IF err THEN "exec_failure" ELSE "success"]
    /\ pc' = [pc EXCEPT ![j] = "delete"]
    /\ UNCHANGED <<env, cpus, file, pos, modules, numGoroutines, mainpc, i, sem, wg,
                   runningModules, monpc, visited, printed, snaps>>

\* JobDelete that leaves the entry in the map
JobDelete_Forget(j) ==
    /\ Alive /\ j \in Jobs /\ pc[j] = "delete"
    /\ pc' = [pc EXCEPT ![j] = "done"]
    /\ UNCHANGED <<env, cpus, file, pos, modules, numGoroutines, mainpc, i, sem, wg,
                   runningModules, outcome, monpc, visited, printed, snaps>>

\* deferred runningModules.Delete(module)
JobDelete(j) ==
    /\ Alive /\ j \in Jobs /\ pc[j] = "delete"
    /\ runningModules' = [runningModules EXCEPT ![modules[j]] = NoEntry]
    /\ snaps' = Observe(runningModules')
    /\ pc' = [pc EXCEPT ![j] = "done"]
    /\ UNCHANGED <<env, cpus, file, pos, modules, numGoroutines, mainpc, i, sem, wg,
                   outcome, monpc, visited, printed>>

\* deferred wg.Done(); runModule has returned after it
JobDone(j) ==
    /\ Alive /\ j \in Jobs /\ pc[j] = "done"
    /\ wg' = wg - 1
    /\ pc' = [pc EXCEPT ![j] = "release"]
    /\ UNCHANGED <<env, cpus, file, pos, modules, numGoroutines, mainpc, i, sem,
                   runningModules, outcome, monpc, visited, printed, snaps>>


\* JobRelease that gives the token back only when the module succeeded
JobRelease_OnSuccess(j) ==
    /\ Alive /\ j \in Jobs /\ pc[j] = "release"
    /\ sem > 0
    /\ sem' = IF outcome[j] = "success" THEN sem - 1 ELSE sem
    /\ pc' = [pc EXCEPT ![j] = "end"]
    /\ UNCHANGED <<env, cpus, file, pos, modules, numGoroutines, mainpc, i, wg,
                   runningModules, outcome, monpc, visited, printed, snaps>>

\* <-sem, the last statement of the goroutine; its locals are gone after it
JobRelease(j) ==
    /\ Alive /\ j \in Jobs /\ pc[j] = "release"
    /\ sem > 0
    /\ sem' = sem - 1
    /\ pc' = [pc EXCEPT ![j] = "end"]
    /\ UNCHANGED <<env, cpus, file, pos, modules, numGoroutines, mainpc, i, wg,
                   runningModules, outcome, monpc, visited, printed, snaps>>

JobStep(j) ==
    \/ JobStore(j) \/ JobCreate(j) \/ JobRun(j)
    \/ JobDelete(j) \/ JobDone(j) \/ JobRelease(j)

JobsStep == \E j \in Jobs : JobStep(j)

\* ------------------------------------------------------------------ monitorKeyPress
\* reader.ReadByte() returns a byte: the header is printed and Range begins
MonKeyPress ==
    /\ Alive /\ monpc = "read"
    /\ monpc' = "range"
    /\ visited' = {}
    /\ printed' = {}
    /\ snaps' = {Keys(runningModules)}
    /\ UNCHANGED <<env, cpus, file, pos, modules, numGoroutines, mainpc, i, sem, wg, pc,
                   runningModules, outcome>>

\* reader.ReadByte() returns an error: nothing is printed, the loop reads again
MonReadErr ==
    /\ Alive /\ monpc = "read"
    /\ UNCHANGED vars

\* MonVisit whose callback removes the entry it has printed
MonVisit_Evict(n) ==
    /\ Alive /\ monpc = "range"
    /\ n \in KeySpace \ visited
    /\ visited' = visited \cup {n}
    /\ printed' = IF runningModules[n] # NoEntry THEN printed \cup {n} ELSE printed
    /\ runningModules' = [runningModules EXCEPT ![n] = NoEntry]
    /\ snaps' = Agreeing(snaps, visited', printed')
    /\ UNCHANGED <<env, cpus, file, pos, modules, numGoroutines, mainpc, i, sem, wg, pc,
                   outcome, monpc>>

\* runningModules.Range: each key is passed once, and the callback prints it
\* when the key has a mapping at that moment.  sync.Map documents that Range
\* "does not necessarily correspond to any consistent snapshot of the Map's
\* contents": a key stored or deleted concurrently is reflected as of any
\* point during the call.
MonVisit(n) ==
    /\ Alive /\ monpc = "range"
    /\ n \in KeySpace \ visited
    /\ visited' = visited \cup {n}
    /\ printed' = IF runningModules[n] # NoEntry THEN printed \cup {n} ELSE printed
    /\ snaps' = Agreeing(snaps, visited', printed')
    /\ UNCHANGED <<env, cpus, file, pos, modules, numGoroutines, mainpc, i, sem, wg, pc,
                   runningModules, outcome, monpc>>

\* Range has returned: the footer is printed and the loop reads again
MonFooter ==
    /\ Alive /\ monpc = "range"
    /\ visited = KeySpace
    /\ monpc' = "read"
    /\ visited' = {}
    /\ printed' = {}
    /\ snaps' = {}
    /\ UNCHANGED <<env, cpus, file, pos, modules, numGoroutines, mainpc, i, sem, wg, pc,
                   runningModules, outcome>>

MonStep == MonKeyPress \/ MonReadErr \/ (\E n \in Names : MonVisit(n)) \/ MonFooter

\* ------------------------------------------------------------------ specifications
Next == MainStep \/ JobsStep \/ MonStep

Spec == Init /\ [][Next]_vars

\* The Go scheduler does not leave the goroutines of the batch (main and the
\* jobs) waiting for ever while one of them can run, and every external
\* process is assumed to exit (JobRun is one of the steps).  Nothing is assumed
\* of the monitor: it may stay blocked on stdin for ever, or print for ever.
FairSpec == Spec /\ WF_vars(MainStep \/ JobsStep)

\* the whole process, from its start
FullNext == SetupStep \/ Next

FullSpec == Boot /\ [][FullNext]_vars

TypeOK ==
    /\ env \in [flags : BOOLEAN, mkdir : BOOLEAN, open : BOOLEAN, scan : BOOLEAN]
    /\ cpus \in 1..MaxCPU
    /\ file \in Files
    /\ pos \in 0..(Len(file) + 1)
    /\ modules \in JobLists
    /\ numGoroutines \in 0..MaxCPU
    /\ mainpc \in {"flags", "mkdir", "open", "scan", "scanerr", "limit", "monitor",
                   "fatal", "acquire", "go", "wait", "report", "exited"}
    /\ i \in 1..(Len(modules) + 1)
    /\ sem \in 0..numGoroutines
    /\ wg \in 0..Len(modules)
    /\ pc \in [Jobs -> {"pending", "store", "create", "run",
                          "delete", "done", "release", "end"}]
    /\ runningModules \in [Names -> {NoEntry} \cup {StartOf(j) : j \in Jobs}]
    /\ outcome \in [Jobs -> {"none", "success", "exec_failure", "setup_failure"}]
    /\ monpc \in {"off", "read", "range"}
    /\ visited \subseteq Names
    /\ printed \subseteq visited
    /\ snaps \subseteq SUBSET Names

\* ------------------------------------------------------------------ vocabulary of the properties
\* main has acquired the token of job j
Admitted(j) == j \in Jobs /\ (j < i \/ (j = i /\ mainpc = "go"))

\* runModule of job j has returned: its last deferred call, wg.Done, is over
Returned(j) == pc[j] \in {"release", "end"}

\* admitted by the dispatcher, runModule not yet returned
Executing(j) == Admitted(j) /\ ~Returned(j)

\* job j has executed its Store and not yet its Delete
Registered(j) == j \in Jobs /\ pc[j] \in {"create", "run", "delete"}

\* the entry under job j's name is the one job j stored
HoldsEntry(j) == j \in Jobs /\ runningModules[modules[j]] = StartOf(j)

\* wg.Wait() has returned
WaitReturned == mainpc \in {"report", "exited"}

Failed(j) == j \in Jobs /\ outcome[j] \in {"setup_failure", "exec_failure"}

\* no other job of the list has job j's name
UniqueName(j) == \A k \in Jobs : modules[k] = modules[j] => k = j

\* ------------------------------------------------------------------ C1
\* C1: in every reachable state the number of executing jobs (admitted, runModule
\* not yet returned) is at most the concurrency limit.
Thm_C1_ExecutingAtMostLimit ==
    Cardinality({j \in Jobs : Executing(j)}) <= numGoroutines

\* the limit of 1 is reached and main is blocked with the second job
Wit_C1 ==
    /\ numGoroutines = 1
    /\ Len(modules) = 2
    /\ mainpc = "acquire" /\ i = 2
    /\ Cardinality({j \in Jobs : Executing(j)}) = 1
    /\ pc[1] = "run"

\* ------------------------------------------------------------------ C2
\* C2: in every reachable state the registry has at most min(N, M) entries, N the
\* concurrency limit and M the size of the job list.
Thm_C2_RegistryAtMostMin ==
    Cardinality(Keys(runningModules)) <= Min2(numGoroutines, Len(modules))

\* min(N, M) = 2 entries at the same time
Wit_C2 ==
    /\ numGoroutines = 2
    /\ Len(modules) = 2
    /\ Cardinality(Keys(runningModules)) = 2

\* ------------------------------------------------------------------ C3
\* C3: once wg.Wait has returned the registry is empty (and, this being an
\* invariant, stays empty), because on every exit path a job's own entry is
\* deleted before the job signals completion.
Thm_C3_EmptyAfterWait ==
    /\ WaitReturned => Keys(runningModules) = {}
    /\ \A j \in Jobs : Returned(j) => ~HoldsEntry(j)

\* the wait has returned after a job that took the error return of os.Create
\* and one that ran its process
Wit_C3 ==
    /\ mainpc = "report"
    /\ numGoroutines = 2
    /\ \E j, k \in Jobs :
         /\ outcome[j] = "setup_failure"
         /\ outcome[k] \in {"exec_failure", "success"}

\* ------------------------------------------------------------------ C4
\* C4: when wg.Wait has returned, every job of the list has started and its
\* runModule has returned: none is pending, none is executing.
Thm_C4_WaitAfterAllJobs ==
    WaitReturned => \A j \in Jobs : Admitted(j) /\ pc[j] # "pending" /\ Returned(j)

\* the wait has returned for a two-job list run one at a time
Wit_C4 ==
    /\ mainpc = "report"
    /\ Len(modules) = 2
    /\ numGoroutines = 1
    /\ \A j \in Jobs : Returned(j)

\* ------------------------------------------------------------------ C5
\* C5: when wg.Wait has returned, the token pool holds no acquired token.
CE_C5_NoTokenAfterWait ==
    WaitReturned => sem = 0

\* ------------------------------------------------------------------ C6
\* C6: a job whose output file cannot be created has no entry of its own in
\* the registry at any instant.
CE_C6_NeverRegistered ==
    \A j \in Jobs : outcome[j] = "setup_failure" => ~HoldsEntry(j)

\* ------------------------------------------------------------------ C7
\* C7 as claimed: for every job list, repeated names allowed, the registry has an
\* entry for a name if and only if some job with that name is between its
\* registration and its deregistration.
CE_C7_EntryIffRunning ==
    \A n \in Names :
        runningModules[n] # NoEntry <=> \E j \in Jobs : modules[j] = n /\ Registered(j)

\* C7 amended: an entry for a name exists only if some job with that name is
\* between its registration and its deregistration, and a job whose name
\* occurs once in the job list has its entry for all of that time.
Thm_C7_EntryOnlyIfRunning ==
    /\ \A n \in Names :
         runningModules[n] # NoEntry => \E j \in Jobs : modules[j] = n /\ Registered(j)
    /\ \A j \in Jobs : (Registered(j) /\ UniqueName(j)) => HoldsEntry(j)

\* the first job registered under its name, the second not yet and without
\* entry
Wit_C7 ==
    /\ modules = <<"pslist", "pstree">>
    /\ Registered(1)
    /\ pc[2] \in {"pending", "store"}
    /\ Keys(runningModules) = {"pslist"}

\* ------------------------------------------------------------------ C8
\* C8: the names printed between a header and its footer are the registry's
\* contents at one instant between the two.
CE_C8_PrintIsSnapshot ==
    [][(monpc = "range" /\ monpc' = "read") => printed \in snaps]_vars

\* ------------------------------------------------------------------ C9
\* a goroutine only moves forward through runModule
Rank(p) ==
    CASE p = "pending" -> 0
      [] p = "store"   -> 1
      [] p = "create"  -> 2
      [] p = "run"     -> 3
      [] p = "delete"  -> 4
      [] p = "done"    -> 5
      [] p = "release" -> 6
      [] p = "end"     -> 7

\* C9: under fair scheduling every job of the list is eventually admitted and
\* reaches a terminal outcome; it is admitted once (it leaves "pending" once and
\* never starts over) and its outcome, once reported, is its only one.
Thm_C9_EveryJobOneOutcome ==
    /\ <>(\A j \in Jobs : pc[j] # "pending" /\ outcome[j] # "none")
    /\ [][\A j \in Jobs :
            /\ pc'[j] # pc[j] => Rank(pc'[j]) > Rank(pc[j])
            /\ outcome[j] # "none" => outcome'[j] = outcome[j]]_vars

\* two jobs run one at a time, the first failed and the second succeeded
Wit_C9 ==
    /\ Len(modules) = 2
    /\ numGoroutines = 1
    /\ outcome[1] = "exec_failure"
    /\ outcome[2] = "success"
    /\ pc[2] = "end"

\* ------------------------------------------------------------------ C10
\* C10: under fair scheduling, once a job has failed the batch still finishes
\* with every job of the list at a terminal outcome, and a failed job is not
\* run again: it keeps its outcome and only runs its deferred calls.
Thm_C10_FailuresIsolated ==
    /\ (\E j \in Jobs : Failed(j)) ~> (WaitReturned /\ \A k \in Jobs : outcome[k] # "none")
    /\ [][\A j \in Jobs :
            Failed(j) => /\ outcome'[j] = outcome[j]
                         /\ pc'[j] \in {"delete", "done", "release", "end"}]_vars

\* the first job failed at os.Create and the second succeeded after it; the
\* batch is over
Wit_C10 ==
    /\ Len(modules) = 2
    /\ numGoroutines = 1
    /\ outcome[1] = "setup_failure"
    /\ outcome[2] = "success"
    /\ mainpc = "exited"

\* ------------------------------------------------------------------ C11
\* C11: admission follows the job list: when a job has its token, every job
\* before it in the list has had its token and has been launched.  Nothing
\* orders the completions.
Thm_C11_AdmissionInListOrder ==
    \A j, k \in Jobs : (j < k /\ Admitted(k)) => (Admitted(j) /\ pc[j] # "pending")

\* the second job has finished while the first, admitted before it, still runs
Wit_C11 ==
    /\ Len(modules) = 2
    /\ pc[1] = "run"
    /\ pc[2] = "end"

\* ------------------------------------------------------------------ C12
\* C12: no step of the monitor changes the registry, the token pool, the job
\* list, main's position in it or any job's position or outcome.
Thm_C12_MonitorReadOnly ==
    [][MonStep => UNCHANGED <<runningModules, sem, wg, modules, mainpc, i, pc, outcome>>]_vars

\* a print under way has listed a module while a job runs and another waits
Wit_C12 ==
    /\ monpc = "range"
    /\ printed # {}
    /\ \E j, k \in Jobs : pc[j] = "run" /\ pc[k] = "pending"

\* ------------------------------------------------------------------ C13
\* C13: whatever the monitor does (no fairness is assumed of it), the batch
\* terminates, and a job at its Store or Delete can always take it: neither
\* waits for the monitor.
Thm_C13_MonitorNeverBlocks ==
    /\ <>(mainpc = "exited")
    /\ [](\A j \in Jobs : (Alive /\ pc[j] \in {"store", "delete"}) => ENABLED JobStep(j))

\* the batch is over while a print was under way
Wit_C13 ==
    /\ mainpc = "exited"
    /\ monpc = "range"
    /\ Len(modules) = 2
    /\ \A j \in Jobs : outcome[j] # "none"

\* ------------------------------------------------------------------ C14
\* one of main's inputs is missing or unreadable
InputFailure == ~env.flags \/ ~env.mkdir \/ ~env.open \/ ~env.scan

\* C14: with a fatal input failure the process never gets past main's checks
\* (its only end is os.Exit(1)): no token is acquired, no job is launched, the
\* registry is empty and the monitor is not started.  os.Exit(1) has no other
\* cause.
Thm_C14_FatalInputAborts ==
    /\ InputFailure =>
         /\ mainpc \in {"flags", "mkdir", "open", "scan", "scanerr", "fatal"}
         /\ sem = 0 /\ wg = 0 /\ i = 1
         /\ \A j \in Jobs : pc[j] = "pending" /\ outcome[j] = "none"
         /\ Keys(runningModules) = {}
         /\ monpc = "off"
    /\ Fatal => InputFailure

\* the scanner failed after a module was read, and the process has exited
Wit_C14 ==
    /\ Fatal
    /\ env = [EnvOK EXCEPT !.scan = FALSE]
    /\ Len(modules) = 1

\* ------------------------------------------------------------------ C15
IsModuleLine(l) == l # ""

\* the non-empty lines of a file, in the file's order
NonEmptyLines(f) == SelectSeq(f, IsModuleLine)

\* C15: the job list is the sequence of the non-empty lines read so far, and of
\* all the file's lines when the scan is complete; no job has the empty name,
\* main admits at most one job per non-empty line and the registry has keys
\* of the job list only.
Thm_C15_JobListIsNonEmptyLines ==
    /\ mainpc \in {"scan", "scanerr"} => modules = NonEmptyLines(SubSeq(file, 1, pos - 1))
    /\ mainpc \in {"limit", "monitor"} => modules = NonEmptyLines(file)
    /\ \A j \in Jobs : modules[j] # ""
    /\ Len(pc) = Len(modules) /\ i <= Len(modules) + 1
    /\ Keys(runningModules) \subseteq KeySpace

\* a file with an empty line between two modules has been read
Wit_C15 ==
    /\ mainpc = "monitor"
    /\ file = <<"pslist", "", "pstree">>
    /\ modules = <<"pslist", "pstree">>

\* ------------------------------------------------------------------ C16
\* the scenario: three modules, runtime.NumCPU() = 3, so two at a time
Init16 ==
    /\ env = EnvOK
    /\ cpus = 3
    /\ file = <<>>
    /\ pos = 0
    /\ modules = <<"pslist", "pstree", "netscan">>
    /\ numGoroutines = numGoroutinesFor(cpus)
    /\ mainpc = "acquire"
    /\ i = 1
    /\ sem = 0
    /\ wg = 0
    /\ pc = [j \in 1..3 |-> "pending"]
    /\ runningModules = [n \in Names |-> NoEntry]
    /\ outcome = [j \in 1..3 |-> "none"]
    /\ monpc = "read"
    /\ visited = {}
    /\ printed = {}
    /\ snaps = {}

Spec16 == Init16 /\ [][Next]_vars /\ WF_vars(MainStep \/ JobsStep)

AllDone == WaitReturned /\ \A j \in Jobs : outcome[j] # "none"

\* C16 as claimed: when no output file fails, every run has an instant with
\* exactly 2 jobs registered, never one with 3, and all 3 jobs complete.
CE_C16_TwoRegisteredInEveryRun ==
    [](\A j \in Jobs : outcome[j] \in {"none", "success"}) =>
        /\ <>(Cardinality(Keys(runningModules)) = 2)
        /\ [](Cardinality(Keys(runningModules)) <= 2)
        /\ <>AllDone

\* C16 amended: in every run there is never an instant with 3 registered and
\* all 3 jobs complete; an instant with exactly 2 registered is possible, not
\* certain.
Thm_C16_NeverThreeAllComplete ==
    /\ [](Cardinality(Keys(runningModules)) <= 2)
    /\ <>AllDone

\* two of the three registered, the third waiting for a token
Wit_C16 ==
    /\ modules = <<"pslist", "pstree", "netscan">>
    /\ numGoroutines = 2
    /\ Keys(runningModules) = {"pslist", "pstree"}
    /\ pc[3] = "pending" /\ mainpc = "acquire"

\* ------------------------------------------------------------------ C17
\* *outputDir, and *memoryImage as its path components
outputDir == "out"
memoryImage == <<"cases", "image.dd">>

\* memoryImage[strings.LastIndex(memoryImage, string(os.PathSeparator))+1:]
memoryImageName == memoryImage[Len(memoryImage)]

\* fmt.Sprintf("%s%c%s_%s.csv", outputDir, os.PathSeparator, memoryImageName, module)
outputFile(module) == <<outputDir, <<memoryImageName, module, "csv">>>>

\* job j has its output file open: from os.Create to the deferred Close
FileOpen(j) == j \in Jobs /\ pc[j] = "run"

\* C17: no two executing jobs have the same output file open.
CE_C17_OutputFilesNotShared ==
    \A j, k \in Jobs :
        (j # k /\ FileOpen(j) /\ FileOpen(k)) => outputFile(modules[j]) # outputFile(modules[k])

\* ------------------------------------------------------------------ C18
\* C18: every admitted job releases its token exactly once, after its
\* runModule has returned and whatever its outcome: the tokens held are those
\* of the admitted jobs that have not released, a token is given back only by
\* a job that has returned, every admitted job does give its token back, and
\* main never waits for ever for a token.
CE_C18_EveryTokenReleasedOnce ==
    /\ [](sem = Cardinality({j \in Jobs : Admitted(j)}) - Cardinality({j \in Jobs : pc[j] = "end"}))
    /\ [][sem' < sem => /\ sem' = sem - 1
                        /\ \E j \in Jobs : Returned(j) /\ pc[j] = "release" /\ pc'[j] = "end"]_vars
    /\ \A j \in 1..MaxJobs : Admitted(j) ~> (j \in Jobs /\ pc[j] = "end")
    /\ (mainpc = "acquire") ~> (mainpc = "go")

\* ------------------------------------------------------------------ C19
\* C19 as claimed: with the same name twice and both jobs registered, the entry
\* has the start time of the later-listed job.
CE_C19_LaterListedWins ==
    \A j, k \in Jobs :
        (j < k /\ modules[j] = modules[k] /\ Registered(j) /\ Registered(k)) => HoldsEntry(k)

\* C19 amended: there is one entry per name; every Store overwrites it, so the
\* entry has the start time of the job that stored last, whichever its place
\* in the list, and an entry is that of a job registered under the name.
Thm_C19_LastStoreWins ==
    [][/\ \A j \in Jobs : (pc[j] = "store" /\ pc'[j] = "create") =>
                             runningModules'[modules[j]] = StartOf(j)
       /\ \A n \in Names : runningModules[n] # NoEntry =>
                             \E j \in Jobs : modules[j] = n /\ Registered(j) /\ HoldsEntry(j)]_vars

\* both jobs of a repeated name registered, the entry is the first job's
Wit_C19 ==
    /\ modules = <<"pslist", "pslist">>
    /\ Registered(1) /\ Registered(2)
    /\ runningModules["pslist"] = StartOf(1)

\* ------------------------------------------------------------------ C20
\* C20: once computed, the limit is max(1, NumCPU - 1), at least 1, and the
\* first send on sem finds room.
Thm_C20_LimitFloorOne ==
    mainpc \in {"monitor", "acquire", "go", "wait", "report", "exited"} =>
        /\ numGoroutines = Max({1, cpus - 1})
        /\ numGoroutines >= 1
        /\ (mainpc = "acquire" /\ i = 1) => sem < numGoroutines

\* with a single CPU the first job has been admitted and launched
Wit_C20 ==
    /\ cpus = 1
    /\ numGoroutines = 1
    /\ Len(modules) >= 1
    /\ pc[1] = "store"
====
